---- MODULE Spec2Model ----
(***************************************************************************)
(* Model of the activity-chain / dwell-time / distance-distribution        *)
(* pipeline of omod's python tools (src/tools/utils.py,                    *)
(* src/tools/calcDistributions.py, src/python_tools/calcDistributions.py). *)
(*                                                                         *)
(* A pandas table is a sequence of rows (records) in row order.  A column  *)
(* that a function adds is a field the rows gain.  Python's None and       *)
(* pandas' NaN in a column are the value None.  An activity chain (a       *)
(* Python string) is a sequence of one-letter strings.                     *)
(***************************************************************************)
EXTENDS Integers, Sequences, FiniteSets, TLC

VARIABLES
    pc,              \* position in the pipeline / in the function modelled
    persons,         \* the persons table
    trips,           \* the trips table
    activityChains,  \* getActivityChains: person id -> chain (a pandas Series)
    groups,          \* getActivityChains: one record per cohort
    gaussians,       \* getDwellTimeDists: (cohort, chain) -> fitted mixture
    jsn,             \* safeActivityGroups: the content of ActivityGroups.json
    distJsn,         \* getDistanceDists: the content of DistanceDistributions.json
    mix              \* getGaussianMixture: the locals of the BIC search

vars == <<pc, persons, trips, activityChains, groups, gaussians, jsn, distJsn, mix>>

----------------------------------------------------------------------------
(* Values *)

None == "None"

\* pandas' NaN as the value of a chain (str + NaN): no string at all.
NaN == <<"nan">>

\* a numeric cell: <<v>> holds the number v, <<>> is None / NaN
NoNum == <<>>
Num(v) == <<v>>
Val(x) == x[1]

Alphabet == {"H", "W", "B", "S", "P", "O"}

\* Python's ord() on the six letters, for string comparison.
Ord(c) ==
    CASE c = "B" -> 66
      [] c = "H" -> 72
      [] c = "O" -> 79
      [] c = "P" -> 80
      [] c = "S" -> 83
      [] c = "W" -> 87

\* Python's seq[i-1] for a 0-based i, on a list of length len, in 1-based terms:
\* the element before position k, and the last element when k is the first.
PyPrev(k, len) == IF k = 1 THEN len ELSE k - 1

----------------------------------------------------------------------------
(* Bounds of the inputs *)

MaxRows == 3

PersonIds == {1, 2}

\* purpose codes (zweck): 1 work, 8 home, 10, and 9, which the labeler maps
\* to nothing
Purposes == {1, 8, 9, 10}

\* pre-trip context codes (W_SO1): 1 home, 2 other, 3 mapped to nothing
Sos == {1, 2, 3}

----------------------------------------------------------------------------
(* Tables *)

Person(id, mobil, wd, hol, taet, multimodal, alter) ==
    [HP_ID_Lok |-> id, mobil |-> mobil, ST_WOTAG |-> wd, feiertag |-> hol,
     taet |-> taet, multimodal |-> multimodal, alter_gr |-> alter]

\* A row of MiD2017_Lokal_Wege.csv, with the columns the pipeline reads.
Trip(id, wid, rbw, zweck, so, szs, szm, azs, azm, folgetag, wegmin, km, regio) ==
    [HP_ID_Lok |-> id, W_ID |-> wid, W_RBW |-> rbw, zweck |-> zweck, W_SO1 |-> so,
     W_SZS |-> szs, W_SZM |-> szm, W_AZS |-> azs, W_AZM |-> azm,
     W_FOLGETAG |-> folgetag, wegmin_imp1 |-> wegmin, wegkm |-> km,
     RegioStaR7 |-> regio]

\* row a sorts before row b under sort_values(["HP_ID_Lok", "W_ID"])
RowLess(a, b) ==
    \/ a.HP_ID_Lok < b.HP_ID_Lok
    \/ a.HP_ID_Lok = b.HP_ID_Lok /\ a.W_ID < b.W_ID

\* trips.sort_values(["HP_ID_Lok", "W_ID"])
SortTrips(t) == SortSeq(t, RowLess)

Reverse(s) == [i \in 1..Len(s) |-> s[Len(s) + 1 - i]]

\* the rows of person id, in table order
RowsOf(t, id) == SelectSeq(t, LAMBDA r: r.HP_ID_Lok = id)

\* the person ids of a table, as groupby('HP_ID_Lok') orders them (ascending)
RECURSIVE SetToSortedSeq(_)
SetToSortedSeq(S) ==
    IF S = {} THEN <<>>
    ELSE LET m == CHOOSE x \in S: \A y \in S: x <= y
         IN <<m>> \o SetToSortedSeq(S \ {m})

GroupKeys(t) == SetToSortedSeq({t[i].HP_ID_Lok : i \in 1..Len(t)})

----------------------------------------------------------------------------
(* Trip Location Labeler: utils.addLocations / addActivities *)

RECURSIVE getDestByPurp(_, _, _)
getDestByPurp(purposes, wids, j) ==
    IF purposes[j] \in {1} THEN "W"
    ELSE IF purposes[j] \in {2} THEN "B"
    ELSE IF purposes[j] \in {3} THEN "S"
    ELSE IF purposes[j] \in {4} THEN "P"
    ELSE IF purposes[j] \in {5, 6, 7, 10} THEN "O"
    ELSE IF purposes[j] \in {8} THEN "H"
    ELSE IF purposes[j] \in {10} THEN
        IF wids[j] = 1 THEN None
        ELSE getDestByPurp(purposes, wids, PyPrev(j, Len(purposes)))
    ELSE None

\* the list destLocs after the loop of addLocations
DestLocs(t) ==
    LET purposes == [i \in 1..Len(t) |-> t[i].zweck]
        wids == [i \in 1..Len(t) |-> t[i].W_ID]
    IN [i \in 1..Len(t) |-> getDestByPurp(purposes, wids, i)]

\* StartLocOf with the leg's own destination taken for a later leg
StartLocOf_OwnDest(t, destLocs, i) ==
    IF t[i].W_ID = 1 THEN
        IF t[i].W_SO1 = 1 THEN "H"
        ELSE IF t[i].W_SO1 \in {2, 9} THEN "O"
        ELSE None
    ELSE destLocs[i]

\* the start location of row i: destLocs holds i entries when it is read
StartLocOf(t, destLocs, i) ==
    IF t[i].W_ID = 1 THEN
        IF t[i].W_SO1 = 1 THEN "H"
        ELSE IF t[i].W_SO1 \in {2, 9} THEN "O"
        ELSE None
    ELSE destLocs[PyPrev(i, i)]

\* addLocations with the rows without a destination label left out
addLocations_LabeledOnly(t0) ==
    LET t == SortTrips(t0)
        destLocs == DestLocs(t)
        all == [i \in 1..Len(t) |->
                  t[i] @@ [StartLoc |-> StartLocOf(t, destLocs, i), DestLoc |-> destLocs[i]]]
    IN SelectSeq(all, LAMBDA r: r.DestLoc # None)

addLocations(t0) ==
    LET t == SortTrips(t0)
        destLocs == DestLocs(t)
    IN [i \in 1..Len(t) |->
          t[i] @@ [StartLoc |-> StartLocOf(t, destLocs, i), DestLoc |-> destLocs[i]]]

----------------------------------------------------------------------------
(* Cohort Partitioner: utils.forAllGrps *)

\* the weekday "undefined" (the weekdays 1..8 are numbers, so this one is too)
WdUndefined == 0

Weekdays == <<1, 2, 3, 4, 5, 6, 7, 8, WdUndefined>>
HomGrps == <<"working", "non_working", "pupil_student", "undefined">>
MobGrps == <<"car_user", "car_other", "other", "undefined">>
AgeGrps == <<"0_40", "40_60", "60_100", "undefined">>

wd_mask(p, wd) ==
    IF wd = 8 THEN p.feiertag = 1
    ELSE IF wd # WdUndefined THEN p.ST_WOTAG = wd /\ p.feiertag = 0
    ELSE TRUE

hom_mask(p, hom) ==
    IF hom = "working" THEN p.taet = 1
    ELSE IF hom = "non_working" THEN p.taet \in {3, 4, 5}
    ELSE IF hom = "pupil_student" THEN p.taet = 2
    ELSE TRUE

mob_mask(p, mob) ==
    IF mob = "car_user" THEN p.multimodal = 1
    ELSE IF mob = "car_other" THEN p.multimodal \in {4, 5, 6}
    ELSE IF mob = "other" THEN p.multimodal \in {2, 3, 6, 8}
    ELSE TRUE

age_mask(p, age) ==
    IF age = "0_40" THEN p.alter_gr \in {1, 2, 3}
    ELSE IF age = "40_60" THEN p.alter_gr \in {4, 5}
    ELSE IF age = "60_100" THEN p.alter_gr \in {6, 7, 8}
    ELSE TRUE

\* the k-th call of fun: the loops nest wd, hom, mob, age
NCohorts == Len(Weekdays) * Len(HomGrps) * Len(MobGrps) * Len(AgeGrps)

CohortAt(k) ==
    LET a == (k - 1) % Len(AgeGrps)
        m == ((k - 1) \div Len(AgeGrps)) % Len(MobGrps)
        h == ((k - 1) \div (Len(AgeGrps) * Len(MobGrps))) % Len(HomGrps)
        w == (k - 1) \div (Len(AgeGrps) * Len(MobGrps) * Len(HomGrps))
    IN [wd |-> Weekdays[w + 1], hom |-> HomGrps[h + 1],
        mob |-> MobGrps[m + 1], age |-> AgeGrps[a + 1]]

\* CohortIds with the age mask left out of the conjunction
CohortIds_ThreeMasks(ps, c) ==
    LET sel == SelectSeq(ps, LAMBDA p: wd_mask(p, c.wd) /\ hom_mask(p, c.hom)
                                        /\ mob_mask(p, c.mob))
    IN [i \in 1..Len(sel) |-> sel[i].HP_ID_Lok]

\* ids = persons[mask].HP_ID_Lok, in the order of the persons table
CohortIds(ps, c) ==
    LET sel == SelectSeq(ps, LAMBDA p: wd_mask(p, c.wd) /\ hom_mask(p, c.hom)
                                        /\ mob_mask(p, c.mob) /\ age_mask(p, c.age))
    IN [i \in 1..Len(sel) |-> sel[i].HP_ID_Lok]

\* the arguments of the k-th call fun(wd, hom, mob, age, ids)
callAt(ps, k) == [cohort |-> CohortAt(k), ids |-> CohortIds(ps, CohortAt(k))]

\* the calls fun(wd, hom, mob, age, ids) of one forAllGrps(persons, fun), in order
forAllGrps(ps) == [k \in 1..NCohorts |-> callAt(ps, k)]

----------------------------------------------------------------------------
(* Activity Chain Aggregator: calcDistributions.getActivityChains *)

RECURSIVE ConcatNotNull(_)
ConcatNotNull(s) ==
    IF s = <<>> THEN <<>>
    ELSE (IF Head(s) = None THEN <<>> ELSE <<Head(s)>>) \o ConcatNotNull(Tail(s))

\* grp['StartLoc'].sum() of one person: the non-null labels joined; the number
\* 0 (here <<>>) when the person has none
SumStartLoc(rows) == ConcatNotNull([i \in 1..Len(rows) |-> rows[i].StartLoc])

\* grp['DestLoc'].last() of one person: the last non-null label; NaN (None) if none
LastDestLoc(rows) ==
    LET nn == ConcatNotNull([i \in 1..Len(rows) |-> rows[i].DestLoc])
    IN IF nn = <<>> THEN None ELSE nn[Len(nn)]

\* 0 + str raises TypeError
ChainRaises(rows) == SumStartLoc(rows) = <<>> /\ LastDestLoc(rows) # None

\* one element of grp['StartLoc'].sum() + grp['DestLoc'].last()
ChainOf(rows) ==
    IF LastDestLoc(rows) = None THEN NaN
    ELSE SumStartLoc(rows) \o <<LastDestLoc(rows)>>

\* the Series of the persons with trips
TripChains(t) ==
    LET keys == GroupKeys(t)
    IN [i \in 1..Len(keys) |-> [id |-> keys[i], chain |-> ChainOf(RowsOf(t, keys[i]))]]

\* notMobil: "H" for every person with mobil == 0
NotMobil(ps) ==
    LET nm == SelectSeq(ps, LAMBDA p: p.mobil = 0)
    IN [i \in 1..Len(nm) |-> [id |-> nm[i].HP_ID_Lok, chain |-> <<"H">>]]

\* activityChains = (...).append(notMobil)
ActivityChainsOf(t, ps) == TripChains(t) \o NotMobil(ps)

ActivityChainsRaise(t) == \E id \in {t[i].HP_ID_Lok : i \in 1..Len(t)}: ChainRaises(RowsOf(t, id))

\* the distinct values of a sequence, in the order of their first occurrence
Unique(s) ==
    LET firsts == SelectSeq([i \in 1..Len(s) |-> i], LAMBDA i: \A j \in 1..(i - 1): s[j] # s[i])
    IN [k \in 1..Len(firsts) |-> s[firsts[k]]]

\* activityChains.index.intersection(ids): the labels of the index that are in
\* ids, each once, in the order of the index
IndexIntersection(ac, ids) ==
    SelectSeq(Unique([i \in 1..Len(ac) |-> ac[i].id]),
              LAMBDA x: \E i \in 1..Len(ids): ids[i] = x)

\* activityChains[ids]: every entry whose label is in ids, grouped by label
Lookup(ac, ids) ==
    LET pick(id) == SelectSeq(ac, LAMBDA e: e.id = id)
        F[i \in 0..Len(ids)] == IF i = 0 THEN <<>> ELSE F[i - 1] \o pick(ids[i])
    IN F[Len(ids)]

\* s.value_counts(): the distinct non-NaN values with their counts, by count
\* descending; values of equal count keep the order of their first occurrence
FirstAt(s, v) == CHOOSE i \in 1..Len(s): s[i] = v /\ \A j \in 1..(i - 1): s[j] # v
CountOf(s, v) == Cardinality({i \in 1..Len(s): s[i] = v})

value_counts(s) ==
    LET vals == {s[i] : i \in 1..Len(s)} \ {NaN}
        before(a, b) ==
            \/ CountOf(s, a) > CountOf(s, b)
            \/ CountOf(s, a) = CountOf(s, b) /\ FirstAt(s, a) < FirstAt(s, b)
        rank(v) == Cardinality({w \in vals: before(w, v)}) + 1
    IN [k \in 1..Cardinality(vals) |->
          LET v == CHOOSE w \in vals: rank(w) = k
          IN [chain |-> v, count |-> CountOf(s, v)]]

\* the record getChains appends for one cohort
getChains(ac, call) ==
    LET ids == IndexIntersection(ac, call.ids)
        sel == Lookup(ac, ids)
    IN [weekday |-> call.cohort.wd, HomGrp |-> call.cohort.hom,
        MobGrp |-> call.cohort.mob, Age |-> call.cohort.age,
        count |-> Len(ids),
        GroupChains |-> value_counts([i \in 1..Len(sel) |-> sel[i].chain])]

GroupsOf(ac, ps) ==
    LET calls == forAllGrps(ps)
    IN [k \in 1..Len(calls) |-> getChains(ac, calls[k])]

----------------------------------------------------------------------------
(* Time Resolver: utils.processTime, utils.addTime *)

\* W_count: the number of rows of the person in the table
W_countOf(t, id) == Len(RowsOf(t, id))

hasStart(r) == r.W_SZS < 80 /\ r.W_SZM < 80
hasStop(r) == r.W_AZS < 80 /\ r.W_AZM < 80

\* the columns start and stop of a row, after the imputation
startOf(r) ==
    IF hasStart(r) THEN Num(r.W_SZS * 60 + r.W_SZM)
    ELSE IF hasStop(r)
         THEN Num(r.W_AZS * 60 + r.W_AZM + r.W_FOLGETAG * 1440 - r.wegmin_imp1)
         ELSE NoNum

\* stopOf without the day added for a trip that ends on the following day
stopOf_SameDay(r) ==
    IF hasStop(r) THEN Num(r.W_AZS * 60 + r.W_AZM)
    ELSE IF hasStart(r) THEN Num(r.W_SZS * 60 + r.W_SZM + r.wegmin_imp1)
         ELSE NoNum

stopOf(r) ==
    IF hasStop(r) THEN Num(r.W_AZS * 60 + r.W_AZM + r.W_FOLGETAG * 1440)
    ELSE IF hasStart(r) THEN Num(r.W_SZS * 60 + r.W_SZM + r.wegmin_imp1)
         ELSE NoNum

\* the table with the columns W_count, start and stop
WithTimes(t) ==
    [i \in 1..Len(t) |->
        t[i] @@ [W_count |-> W_countOf(t, t[i].HP_ID_Lok),
                 start |-> startOf(t[i]), stop |-> stopOf(t[i])]]

\* at1: no information and last trip
at1(t) == {i \in 1..Len(t): ~hasStart(t[i]) /\ ~hasStop(t[i]) /\ t[i].W_ID = t[i].W_count}

\* dropPersons and at2: every row of a person with another trip without information
dropPersons(t) ==
    {t[i].HP_ID_Lok : i \in {j \in 1..Len(t): ~hasStart(t[j]) /\ ~hasStop(t[j])
                                               /\ t[j].W_ID # t[j].W_count}}

at2(t) == {i \in 1..Len(t): t[i].HP_ID_Lok \in dropPersons(t)}

\* Dropped with only the rows without information dropped, not their persons
Dropped_RowsOnly(t) == {i \in 1..Len(t): ~hasStart(t[i]) /\ ~hasStop(t[i])}

\* trips.drop(at1.union(at2))
Dropped(t) == at1(t) \cup at2(t)

\* the rows of s at the positions not in D, in order
DropAt(s, D) ==
    LET kept == SelectSeq([i \in 1..Len(s) |-> i], LAMBDA i: i \notin D)
    IN [k \in 1..Len(kept) |-> s[kept[k]]]

processTime(t0) ==
    LET t == WithTimes(t0)
    IN DropAt(t, Dropped(t))

\* dwellTimeOf with a negative difference kept
dwellTimeOf_NoClamp(t, i) ==
    IF t[i].W_ID = 1 THEN t[i].start
    ELSE LET prev == t[PyPrev(i, Len(t))]
         IN IF t[i].start = NoNum \/ prev.stop = NoNum THEN NoNum
            ELSE Num(Val(t[i].start) - Val(prev.stop))

\* the entry of the list dwellTime for row i of the sorted table
dwellTimeOf(t, i) ==
    IF t[i].W_ID = 1 THEN t[i].start
    ELSE LET prev == t[PyPrev(i, Len(t))]
         IN IF t[i].start = NoNum \/ prev.stop = NoNum THEN NoNum
            ELSE IF Val(t[i].start) - Val(prev.stop) < 0 THEN NoNum
            ELSE Num(Val(t[i].start) - Val(prev.stop))

\* addTime after its call of processTime
addDwellTime(t0) ==
    LET t == SortTrips(t0)
    IN [i \in 1..Len(t) |-> t[i] @@ [DwellTime |-> dwellTimeOf(t, i)]]

addTime(t) == addDwellTime(processTime(t))

----------------------------------------------------------------------------
(* Distance Distribution Fitter: utils.getDistanceDistributions and           *)
(* calcDistributions.getDistanceDists of src/tools                            *)

\* a region type: "All", or a RegioStaR7 code
All == [all |-> TRUE, code |-> 0]
Region(c) == [all |-> FALSE, code |-> c]

\* ["All"] + list(np.sort(trips.RegioStaR7.dropna().unique()))
regionsOf(t) ==
    LET codes == SetToSortedSeq({Val(t[i].RegioStaR7) : i \in {j \in 1..Len(t): t[j].RegioStaR7 # NoNum}})
    IN <<All>> \o [i \in 1..Len(codes) |-> Region(codes[i])]

\* baseMask, for a start and a destination location (None: any)
baseMask(r, startLoc, destLoc) ==
    /\ r.wegkm < 1000
    /\ startLoc # None => r.StartLoc = startLoc
    /\ destLoc # None => r.DestLoc = destLoc

\* mask, for a region type
regionMask(r, rType) == rType # All => r.RegioStaR7 = Num(rType.code)

\* data = trips[mask].wegkm.values
dataOf(t, startLoc, destLoc, rType) ==
    LET sel == SelectSeq(t, LAMBDA r: baseMask(r, startLoc, destLoc) /\ regionMask(r, rType))
    IN [i \in 1..Len(sel) |-> sel[i].wegkm]

\* best_fit_distribution(data) raises on a sample of fewer than two values
\* (kstest on an empty array, the fit of a 0-d array after squeeze())
best_fit_raises(data) == Len(data) < 2

\* the row of best_fit_distribution(data) with Name "lognorm": the fitted
\* parameters are a function of the sample, which stands for them here
best_fit_distribution(data) == [Name |-> "lognorm", Parameters |-> data]

\* df_distributions: one lognorm row per region type, in the order of regions
getDistanceDistributions(t, startLoc, destLoc) ==
    LET regions == regionsOf(t)
    IN [i \in 1..Len(regions) |->
          best_fit_distribution(dataOf(t, startLoc, destLoc, regions[i]))
             @@ [RegionType |-> regions[i],
                 Samples |-> Len(dataOf(t, startLoc, destLoc, regions[i]))]]

getDistanceDistributionsRaises(t, startLoc, destLoc) ==
    \E i \in 1..Len(regionsOf(t)): best_fit_raises(dataOf(t, startLoc, destLoc, regionsOf(t)[i]))

\* the activity pairs of getDistanceDists: name -> <<startLoc, destLoc>>
PairNames == <<"home_work", "home_school", "any_shopping", "any_other">>

PairOf(name) ==
    CASE name = "home_work" -> <<"H", "W">>
      [] name = "home_school" -> <<"H", "S">>
      [] name = "any_shopping" -> <<None, "P">>
      [] name = "any_other" -> <<None, "O">>

\* region if region != "All" else 0, then int(region)
regionKey(rType) == IF rType # All THEN rType.code ELSE 0

\* dist = df[(df.RegionType == region) & (df.Name == "lognorm")].iloc[0]
distRow(df, rType) ==
    LET rows == SelectSeq(df, LAMBDA d: d.RegionType = rType /\ d.Name = "lognorm")
    IN rows[1]

\* tmp after the loop over the region types: a later region type with the same
\* key replaces the entry of an earlier one
tmpOf(t, df) ==
    LET regions == regionsOf(t)
        F[i \in 0..Len(regions)] ==
            IF i = 0 THEN <<>>
            ELSE LET key == regionKey(regions[i])
                     dist == distRow(df, regions[i])
                     val == [distribution |-> dist.Name, fit |-> dist.Parameters]
                 IN [k \in DOMAIN F[i - 1] \cup {key} |-> IF k = key THEN val ELSE F[i - 1][k]]
    IN F[Len(regions)]

\* jsn of getDistanceDists, as written to DistanceDistributions.json
getDistanceDists(t) ==
    [name \in {PairNames[i] : i \in 1..Len(PairNames)} |->
        tmpOf(t, getDistanceDistributions(t, PairOf(name)[1], PairOf(name)[2]))]

getDistanceDistsRaises(t) ==
    \E i \in 1..Len(PairNames):
        getDistanceDistributionsRaises(t, PairOf(PairNames[i])[1], PairOf(PairNames[i])[2])

----------------------------------------------------------------------------
(* Dwell Time Fitter: calcDistributions.getDwellTimeDists and the sample X of *)
(* utils.getGaussianMixture                                                   *)

\* the columns of dwellTimes = trips.pivot(index='HP_ID_Lok', columns='W_ID',
\* values='DwellTime') up to the label n, ascending
pivotColumns(t, n) == SetToSortedSeq({t[i].W_ID : i \in {j \in 1..Len(t): t[j].W_ID <= n}})

\* the cell of dwellTimes for person id and leg w: NaN when the person has no
\* such leg
pivotCell(t, id, w) ==
    LET at == {i \in 1..Len(t): t[i].HP_ID_Lok = id /\ t[i].W_ID = w}
    IN IF at = {} THEN NoNum ELSE t[CHOOSE i \in at: TRUE].DwellTime

\* X = dwellTimes.loc[ids, :len(chain)-1].dropna().values, with
\* ids = activityChains[activityChains == chain].index.intersection(grpIDs)
sampleOf(chain, ac, t, grpIDs) ==
    LET own == SelectSeq(ac, LAMBDA e: e.chain = chain)
        ids == IndexIntersection(own, grpIDs)
        cols == pivotColumns(t, Len(chain) - 1)
        row(id) == [c \in 1..Len(cols) |-> pivotCell(t, id, cols[c])]
        full == SelectSeq(ids, LAMBDA id: \A c \in 1..Len(cols): row(id)[c] # NoNum)
    IN [i \in 1..Len(full) |-> [c \in 1..Len(cols) |-> Val(row(full[i])[c])]]

\* fittedChains with the chains of exactly 30 samples left out
fittedChains_Above(ac, call) ==
    LET tbl == getChains(ac, call).GroupChains
    IN {tbl[i].chain : i \in {j \in 1..Len(tbl): \A m \in 1..j: tbl[m].count > 30}}

\* the chains getGaus fits for one call: the loop over value_counts() breaks
\* at the first count below 30
fittedChains(ac, call) ==
    LET tbl == getChains(ac, call).GroupChains
    IN {tbl[i].chain : i \in {j \in 1..Len(tbl): \A m \in 1..j: tbl[m].count >= 30}}

\* the key of gaussians for chain x in a call of getGaus
gausKeyOf(call, x) == <<call.cohort.wd, call.cohort.hom, call.cohort.mob, call.cohort.age, x>>

\* the entries one call of getGaus stores: the model fitted for a key is a
\* function of its sample X, which stands for it here
getGaus(ac, t, call) ==
    LET keys == {gausKeyOf(call, x) : x \in fittedChains(ac, call)}
    IN [key \in keys |-> [X |-> sampleOf(key[5], ac, t, IndexIntersection(ac, call.ids))]]

\* gaussians after utils.forAllGrps(persons, getGaus)
getDwellTimeDists(t, ps) ==
    LET ac == TripChains(t)
        calls == forAllGrps(ps)
        keys == UNION {DOMAIN getGaus(ac, t, calls[k]) : k \in 1..Len(calls)}
        callOf(key) == CHOOSE k \in 1..Len(calls): gausKeyOf(calls[k], key[5]) = key
    IN [key \in keys |-> getGaus(ac, t, calls[callOf(key)])[key]]

----------------------------------------------------------------------------
(* Serializer: calcDistributions.safeActivityGroups *)

\* a fitted mixture m as a value of gaussians or of "gaussianMixture"; null
NoMixture == <<>>
Mixture(m) == <<m>>

\* the least count of a chain that is fitted and written
MinCount == 30

\* Python's a < b on two strings
RECURSIVE StrLess(_, _)
StrLess(a, b) ==
    IF b = <<>> THEN FALSE
    ELSE IF a = <<>> THEN TRUE
    ELSE IF Ord(Head(a)) # Ord(Head(b)) THEN Ord(Head(a)) < Ord(Head(b))
    ELSE StrLess(Tail(a), Tail(b))

\* PairBefore with the pairs of equal weight left in the order of the table
PairBefore_Stable(tbl, i, j) ==
    \/ tbl[i].count > tbl[j].count
    \/ tbl[i].count = tbl[j].count /\ i < j

\* the pair (weight, chain) of entry i comes before that of entry j in
\* sorted(zip(weights, chains), reverse=True): the tuples compare by weight,
\* then by chain
PairBefore(tbl, i, j) ==
    \/ tbl[i].count > tbl[j].count
    \/ tbl[i].count = tbl[j].count /\ StrLess(tbl[j].chain, tbl[i].chain)

\* sorted(zip(weights, chains), reverse=True)
sortedPairs(tbl) ==
    LET rank(i) == Cardinality({j \in 1..Len(tbl): PairBefore(tbl, j, i)}) + 1
    IN [k \in 1..Len(tbl) |-> tbl[CHOOSE i \in 1..Len(tbl): rank(i) = k]]

\* the test without the least count
Retained_AnyCount(n, x) == x[Len(x)] \in {"H", "O"}

\* the test with the chains of exactly MinCount samples dropped
Retained_Above(n, x) == n > MinCount /\ x[Len(x)] \in {"H", "O"}

\* n >= 30 and x[-1] in ["H", "O"]
Retained(n, x) == n >= MinCount /\ x[Len(x)] \in {"H", "O"}

lngNameMap(c) ==
    CASE c = "W" -> "WORK"
      [] c = "B" -> "BUSINESS"
      [] c = "S" -> "SCHOOL"
      [] c = "P" -> "SHOPPING"
      [] c = "O" -> "OTHER"
      [] c = "H" -> "HOME"

chainStrToList(string) == [i \in 1..Len(string) |-> lngNameMap(string[i])]

\* the key of gaussians for a chain of a cohort record
GausKey(group, x) == <<group.weekday, group.HomGrp, group.MobGrp, group.Age, x>>

\* the lookup without the case of the chain "H"
gaussianMixtureOf_NoHCase(group, x, gaus) ==
    IF GausKey(group, x) \in DOMAIN gaus THEN Mixture(gaus[GausKey(group, x)])
    ELSE NoMixture

\* g["gaussianMixture"]
gaussianMixtureOf(group, x, gaus) ==
    IF x # <<"H">>
    THEN IF GausKey(group, x) \in DOMAIN gaus THEN Mixture(gaus[GausKey(group, x)])
         ELSE NoMixture
    ELSE NoMixture

\* activityData of one cohort record
activityDataOf(group, gaus) ==
    LET kept == SelectSeq(sortedPairs(group.GroupChains), LAMBDA e: Retained(e.count, e.chain))
    IN [i \in 1..Len(kept) |->
          [chain |-> chainStrToList(kept[i].chain),
           weight |-> kept[i].count,
           gaussianMixture |-> gaussianMixtureOf(group, kept[i].chain, gaus)]]

wdMap(wd) ==
    CASE wd = 1 -> "mo" [] wd = 2 -> "tu" [] wd = 3 -> "we" [] wd = 4 -> "th"
      [] wd = 5 -> "fr" [] wd = 6 -> "sa" [] wd = 7 -> "so" [] wd = 8 -> "ho"
      [] wd = WdUndefined -> "undefined"

\* jsn, as written to ActivityGroups.json
safeActivityGroups(grps, gaus) ==
    [k \in 1..Len(grps) |->
        [weekday |-> wdMap(grps[k].weekday),
         homogenousGroup |-> grps[k].HomGrp,
         mobilityGroup |-> grps[k].MobGrp,
         age |-> grps[k].Age,
         sampleSize |-> grps[k].count,
         activityChains |-> activityDataOf(grps[k], gaus)]]

----------------------------------------------------------------------------
(* Inputs *)

\* the idle values of the variables a specification does not use
NoTable == <<>>
NoMix == [pc |-> "idle"]
NoMap == <<>>

\* the leg counts of two persons with at most MaxRows legs in all
Splits == {x \in (0..MaxRows) \X (0..MaxRows): x[1] + x[2] <= MaxRows}

\* a person with the attributes that put them in the cohorts of a working
\* car user under 40 on a Monday
PlainPerson(id, mobil) == Person(id, mobil, 1, 0, 1, 1, 1)

\* a leg with the timing and distance columns fixed: 08:00 to 09:00, 60 min, 5 km
PlainLeg(id, wid, zweck, so) == Trip(id, wid, 0, zweck, so, 8, 0, 9, 0, 0, 60, 5, Num(71))

\* the legs 1..n of one person after the loader: leg w with the purpose code
\* z[w]; the survey gives the pre-trip context code for the first leg
LabelLegs(id, n, z, so) == [w \in 1..n |-> PlainLeg(id, w, z[w], IF w = 1 THEN so ELSE 1)]

LabelPersons == {<<PlainPerson(1, m1), PlainPerson(2, m2)>> : m1 \in {0, 1}, m2 \in {0, 1}}

----------------------------------------------------------------------------
(* The labeler and the chain table: addLocations, then the first lines of     *)
(* getActivityChains.                                                         *)

InitLabel ==
    /\ pc = "loaded"
    /\ persons \in LabelPersons
    /\ \E x \in Splits:
         \E z1 \in [1..x[1] -> Purposes], z2 \in [1..x[2] -> Purposes], so1 \in Sos, so2 \in Sos:
            LET t == LabelLegs(1, x[1], z1, so1) \o LabelLegs(2, x[2], z2, so2)
            IN trips \in {t, Reverse(t)}
    /\ activityChains = NoTable
    /\ groups = NoTable
    /\ gaussians = NoMap
    /\ jsn = NoTable
    /\ distJsn = NoMap
    /\ mix = NoMix

\* trips = utils.addLocations(trips)
AddLocations ==
    /\ pc = "loaded"
    /\ trips' = addLocations(trips)
    /\ pc' = "labeled"
    /\ UNCHANGED <<persons, activityChains, groups, gaussians, jsn, distJsn, mix>>

\* getActivityChains up to activityChains.append(notMobil); str + 0 raises
BuildChains ==
    /\ pc = "labeled"
    /\ IF ActivityChainsRaise(trips)
       THEN pc' = "TypeError" /\ UNCHANGED activityChains
       ELSE pc' = "chains" /\ activityChains' = ActivityChainsOf(trips, persons)
    /\ UNCHANGED <<persons, trips, groups, gaussians, jsn, distJsn, mix>>

NextLabel == AddLocations \/ BuildChains

SpecLabel == InitLabel /\ [][NextLabel]_vars

----------------------------------------------------------------------------
(* The time resolver: addTime on a labeled trips table.                       *)

\* raw start fields <<W_SZS, W_SZM>>: 08:00, 10:30, hour missing, minute missing
StartRaw == {<<8, 0>>, <<10, 30>>, <<99, 0>>, <<8, 99>>}

\* raw stop fields <<W_AZS, W_AZM, W_FOLGETAG>>: 09:00, 00:30 on the next day,
\* hour missing, minute missing
StopRaw == {<<9, 0, 0>>, <<0, 30, 1>>, <<99, 0, 0>>, <<9, 99, 0>>}

\* a leg home (the first leg starts at home) with free timing and 45 min duration
TimedLeg(id, wid, a, b) == Trip(id, wid, 0, 8, 1, a[1], a[2], b[1], b[2], b[3], 45, 5, Num(71))

\* the legs 1..n of one person, leg w with the raw fields c[w]
TimeLegs(id, n, c) == [w \in 1..n |-> TimedLeg(id, w, c[w][1], c[w][2])]

InitTime ==
    /\ pc = "labeled"
    /\ persons = <<PlainPerson(1, 1), PlainPerson(2, 1)>>
    /\ \E x \in Splits:
         \E c1 \in [1..x[1] -> StartRaw \X StopRaw], c2 \in [1..x[2] -> StartRaw \X StopRaw]:
            trips = addLocations(TimeLegs(1, x[1], c1) \o TimeLegs(2, x[2], c2))
    /\ activityChains = NoTable
    /\ groups = NoTable
    /\ gaussians = NoMap
    /\ jsn = NoTable
    /\ distJsn = NoMap
    /\ mix = NoMix

\* addTime: trips = processTime(trips)
ProcessTime ==
    /\ pc = "labeled"
    /\ trips' = processTime(trips)
    /\ pc' = "timed"
    /\ UNCHANGED <<persons, activityChains, groups, gaussians, jsn, distJsn, mix>>

\* addTime: the sort and the DwellTime column
AddDwellTime ==
    /\ pc = "timed"
    /\ trips' = addDwellTime(trips)
    /\ pc' = "dwelled"
    /\ UNCHANGED <<persons, activityChains, groups, gaussians, jsn, distJsn, mix>>

NextTime == ProcessTime \/ AddDwellTime

SpecTime == InitTime /\ [][NextTime]_vars

----------------------------------------------------------------------------
(* The BIC search of utils.getGaussianMixture.  mix holds its locals:         *)
(*   X           the number of rows of X (the dwell-time rows left by dropna) *)
(*   n           the component count of the next candidate                    *)
(*   bic_best    the BIC of model_best, None before the first candidate       *)
(*   model_best  the component count of the model kept, None before the first *)
(*   bics        the BIC of every candidate evaluated so far, in order        *)

\* mx_components=20
mx_components == 20

\* the values model.bic(X) takes
BicValues == {1, 2, 3}

\* the numbers of rows of X
SampleSizes == {0, 1, 2, 5, 18, 19, 30}

\* GaussianMixture(n_components=n).fit(X) raises ValueError on fewer than 2
\* samples and on fewer samples than components
FitRaises(n, X) == X < 2 \/ X < n

\* the break on >= instead of >
BicIncreases_OrEqual(bic, best) == best # NoNum /\ bic >= Val(best)

\* (bic_best is not None) and (bic > bic_best)
BicIncreases(bic, best) == best # NoNum /\ bic > Val(best)

InitBIC ==
    /\ pc = "getGaussianMixture"
    /\ persons = NoTable
    /\ trips = NoTable
    /\ activityChains = NoTable
    /\ groups = NoTable
    /\ gaussians = NoMap
    /\ jsn = NoTable
    /\ distJsn = NoMap
    /\ \E X \in SampleSizes:
         mix = [pc |-> "loop", X |-> X, n |-> 1, bic_best |-> NoNum,
                model_best |-> NoNum, bics |-> <<>>]

\* one pass of the loop body with a candidate that fits: its BIC is bic
FitCandidate ==
    /\ mix.pc = "loop"
    /\ mix.n < mx_components
    /\ ~FitRaises(mix.n, mix.X)
    /\ \E bic \in BicValues:
         IF BicIncreases(bic, mix.bic_best)
         THEN mix' = [mix EXCEPT !.pc = "returned", !.bics = Append(@, bic)]
         ELSE mix' = [mix EXCEPT !.model_best = Num(mix.n), !.bic_best = Num(bic),
                                 !.bics = Append(@, bic), !.n = @ + 1]
    /\ UNCHANGED <<pc, persons, trips, activityChains, groups, gaussians, jsn, distJsn>>

\* the fit of the next candidate raises
FitFails ==
    /\ mix.pc = "loop"
    /\ mix.n < mx_components
    /\ FitRaises(mix.n, mix.X)
    /\ mix' = [mix EXCEPT !.pc = "ValueError"]
    /\ UNCHANGED <<pc, persons, trips, activityChains, groups, gaussians, jsn, distJsn>>

\* range(1, mx_components) is exhausted
LoopEnds ==
    /\ mix.pc = "loop"
    /\ mix.n >= mx_components
    /\ mix' = [mix EXCEPT !.pc = "returned"]
    /\ UNCHANGED <<pc, persons, trips, activityChains, groups, gaussians, jsn, distJsn>>

NextBIC == FitCandidate \/ FitFails \/ LoopEnds

SpecBIC == InitBIC /\ [][NextBIC]_vars

----------------------------------------------------------------------------
(* The distance distribution fitter on a labeled trips table.                 *)

\* region type codes: 0, and the code 71 of RegioStaR7
RegionCodes == {0, 71}

\* the number of trips of each activity pair in a region of the base load
MaxBlock == 2

\* the free trips added to the base load
MaxExtra == 1

\* the legs (one per person) that make a trip of each of the four activity
\* pairs: <<W_SO1, zweck>>
PairLegs == <<<<1, 1>>, <<1, 3>>, <<1, 4>>, <<1, 5>>>>

\* the free legs: a start at home or elsewhere, a purpose, a region type or
\* none, a distance of 7 km or 1000 km
ExtraLegs == {1, 2} \X {1, 3, 4, 5, 8} \X ({NoNum} \cup {Num(c) : c \in RegionCodes}) \X {7, 1000}

\* one single-leg person per trip; the trip at position k is k km long
DistLeg(k, so, zweck, km, regio) == Trip(k, 1, 0, zweck, so, 8, 0, 9, 0, 0, 60, km, regio)

\* n trips of each activity pair in region type regio, for the persons from
\* first on
BlockLegs(first, n, regio) ==
    [k \in 1..(n * Len(PairLegs)) |->
        LET pl == PairLegs[((k - 1) % Len(PairLegs)) + 1]
        IN DistLeg(first + k - 1, pl[1], pl[2], first + k - 1, regio)]

\* the base load: b[c] trips of each pair in region c, b[none] in no region
BaseLoad(b0, b1, b2) ==
    LET t0 == BlockLegs(1, b0, NoNum)
        t1 == t0 \o BlockLegs(Len(t0) + 1, b1, Num(0))
    IN t1 \o BlockLegs(Len(t1) + 1, b2, Num(71))

InitDist ==
    /\ pc = "labeled"
    /\ persons = NoTable
    /\ \E b0 \in 0..MaxBlock, b1 \in 0..MaxBlock, b2 \in 0..MaxBlock:
         \E n \in 0..MaxExtra: \E e \in [1..n -> ExtraLegs]:
            LET base == BaseLoad(b0, b1, b2)
                extra == [k \in 1..n |->
                            DistLeg(Len(base) + k, e[k][1], e[k][2], e[k][4], e[k][3])]
            IN trips = addLocations(base \o extra)
    /\ activityChains = NoTable
    /\ groups = NoTable
    /\ gaussians = NoMap
    /\ jsn = NoTable
    /\ distJsn = NoMap
    /\ mix = NoMix

\* getDistanceDists(tripData)
GetDistanceDists ==
    /\ pc = "labeled"
    /\ IF getDistanceDistsRaises(trips)
       THEN pc' = "FitError" /\ UNCHANGED distJsn
       ELSE pc' = "fitted" /\ distJsn' = getDistanceDists(trips)
    /\ UNCHANGED <<persons, trips, activityChains, groups, gaussians, jsn, mix>>

NextDist == GetDistanceDists

SpecDist == InitDist /\ [][NextDist]_vars

----------------------------------------------------------------------------
(* The serializer on the records of one or two cohorts.                       *)

\* the chains of a chain-count table
MaxChains == 2

\* the chains: home, home-work-home, home-work
SerChains == {<<"H">>, <<"H", "W", "H">>, <<"H", "W">>}

\* the counts: below, at and above MinCount
SerCounts == {29, 30, 31}

\* the cohorts of the records, in the order of forAllGrps
SerCohorts ==
    <<[wd |-> 1, hom |-> "working", mob |-> "car_user", age |-> "0_40"],
      [wd |-> WdUndefined, hom |-> "undefined", mob |-> "undefined", age |-> "undefined"]>>

RECURSIVE SumCounts(_)
SumCounts(tbl) == IF tbl = <<>> THEN 0 ELSE Head(tbl).count + SumCounts(Tail(tbl))

\* a table as value_counts() leaves it: distinct chains, counts descending
IsCountTable(tbl) ==
    /\ \A i, j \in 1..Len(tbl): i < j => tbl[i].chain # tbl[j].chain /\ tbl[i].count >= tbl[j].count

SerGroup(c, tbl) ==
    [weekday |-> c.wd, HomGrp |-> c.hom, MobGrp |-> c.mob, Age |-> c.age,
     count |-> SumCounts(tbl), GroupChains |-> tbl]

\* the mixtures fitted: "m1" for the chain HWH in the first cohort, "m2" for
\* it in the second, "m3" for the chain H in the first
SerFits ==
    LET key(c, x) == <<c.wd, c.hom, c.mob, c.age, x>>
    IN (key(SerCohorts[1], <<"H", "W", "H">>) :> "m1")
       @@ (key(SerCohorts[2], <<"H", "W", "H">>) :> "m2")
       @@ (key(SerCohorts[1], <<"H">>) :> "m3")

InitSer ==
    /\ pc = "mixtures"
    /\ persons = NoTable
    /\ trips = NoTable
    /\ activityChains = NoTable
    /\ \E ng \in 1..Len(SerCohorts):
         \E n \in [1..ng -> 0..MaxChains]:
            \E x \in [1..ng -> [1..MaxChains -> SerChains]], c \in [1..ng -> [1..MaxChains -> SerCounts]]:
               LET tbl(g) == [i \in 1..n[g] |-> [chain |-> x[g][i], count |-> c[g][i]]]
               IN /\ \A g \in 1..ng: IsCountTable(tbl(g))
                  /\ \A g \in 1..ng: \A i \in (n[g] + 1)..MaxChains:
                        x[g][i] = <<"H">> /\ c[g][i] = 30
                  /\ groups = [g \in 1..ng |-> SerGroup(SerCohorts[g], tbl(g))]
    /\ \E K \in SUBSET DOMAIN SerFits: gaussians = [k \in K |-> SerFits[k]]
    /\ jsn = NoTable
    /\ distJsn = NoMap
    /\ mix = NoMix

\* safeActivityGroups(groupData, gaussianData)
SafeActivityGroups ==
    /\ pc = "mixtures"
    /\ jsn' = safeActivityGroups(groups, gaussians)
    /\ pc' = "done"
    /\ UNCHANGED <<persons, trips, activityChains, groups, gaussians, distJsn, mix>>

NextSer == SafeActivityGroups

SpecSer == InitSer /\ [][NextSer]_vars

----------------------------------------------------------------------------
(* The pipeline from the survey files to ActivityGroups.json on three         *)
(* persons: loadData, getActivityChains, addTime, getDwellTimeDists,          *)
(* safeActivityGroups.                                                        *)

\* the attributes <<ST_WOTAG, feiertag, taet, multimodal, alter_gr>> of a
\* person: a working car user under 40 on a Monday; a non-working person of
\* 40 to 60 with multimodal class 6 on a holiday; a person whose attributes
\* fall in the "undefined" groups only
Profiles == {<<1, 0, 1, 1, 1>>, <<6, 1, 3, 6, 4>>, <<7, 0, 9, 9, 9>>}

ProfiledPerson(id, mobil, a) == Person(id, mobil, a[1], a[2], a[3], a[4], a[5])

\* the raw fields <<W_SZS, W_SZM, W_AZS, W_AZM>> of a return leg: 17:30 to
\* 18:00; start missing; start and stop missing; 08:10 to 08:20, before the
\* end of the first leg
ReturnRaw == {<<17, 30, 18, 0>>, <<99, 0, 18, 0>>, <<99, 0, 99, 0>>, <<8, 10, 8, 20>>}

\* the two legs of a person who leaves home at 08:00 for the purpose zweck,
\* arrives at 08:30 and returns home
RoundTrip(id, zweck, r) ==
    <<Trip(id, 1, 0, zweck, 1, 8, 0, 8, 30, 0, 30, 5, Num(71)),
      Trip(id, 2, 0, 8, 1, r[1], r[2], r[3], r[4], 0, 30, 5, Num(71))>>

\* a regular work trip of the person, reported as a third leg
RegularWorkTrip(id) == Trip(id, 3, 1, 1, 1, 99, 99, 99, 99, 0, 30, 5, Num(71))

\* loadData: the rows with W_RBW != 1, then addLocations
loadData(t) == addLocations(SelectSeq(t, LAMBDA r: r.W_RBW # 1))

\* some fit of getDwellTimeDists raises at its first candidate
getDwellTimeDistsRaises(t, ps) ==
    LET g == getDwellTimeDists(t, ps)
    IN \E key \in DOMAIN g: FitRaises(1, Len(g[key].X))

\* some fit of getDwellTimeDists raises if the search reaches the last candidate
getDwellTimeDistsMayRaise(t, ps) ==
    LET g == getDwellTimeDists(t, ps)
    IN \E key \in DOMAIN g: FitRaises(mx_components - 1, Len(g[key].X))

\* person 1 goes to work and back, person 2 is not mobile, person 3 goes
\* shopping and back
InitE2E ==
    /\ pc = "files"
    /\ \E a1 \in Profiles, a2 \in Profiles, a3 \in Profiles:
         persons = <<ProfiledPerson(1, 1, a1), ProfiledPerson(2, 0, a2), ProfiledPerson(3, 1, a3)>>
    /\ \E r1 \in ReturnRaw, r3 \in ReturnRaw, rbw \in BOOLEAN:
         LET t == RoundTrip(1, 1, r1)
                    \o (IF rbw THEN <<RegularWorkTrip(1)>> ELSE <<>>)
                    \o RoundTrip(3, 4, r3)
         IN trips \in {t, Reverse(t)}
    /\ activityChains = NoTable
    /\ groups = NoTable
    /\ gaussians = NoMap
    /\ jsn = NoTable
    /\ distJsn = NoMap
    /\ mix = NoMix

\* tripData, persData = loadData()
LoadData ==
    /\ pc = "files"
    /\ trips' = loadData(trips)
    /\ pc' = "labeled"
    /\ UNCHANGED <<persons, activityChains, groups, gaussians, jsn, distJsn, mix>>

\* groupData = getActivityChains(tripData, persData); str + 0 raises
GetActivityChains ==
    /\ pc = "labeled"
    /\ IF ActivityChainsRaise(trips)
       THEN pc' = "TypeError" /\ UNCHANGED <<activityChains, groups>>
       ELSE /\ pc' = "grouped"
            /\ activityChains' = ActivityChainsOf(trips, persons)
            /\ groups' = GroupsOf(ActivityChainsOf(trips, persons), persons)
    /\ UNCHANGED <<persons, trips, gaussians, jsn, distJsn, mix>>

\* tripData = utils.addTime(tripData)
AddTime ==
    /\ pc = "grouped"
    /\ trips' = addTime(trips)
    /\ pc' = "dwelled"
    /\ UNCHANGED <<persons, activityChains, groups, gaussians, jsn, distJsn, mix>>

\* gaussianData = getDwellTimeDists(tripData, persData); a fit raises on a
\* sample of fewer rows than two or than the components of a candidate, and
\* how far each search goes is up to the BIC values
GetDwellTimeDists ==
    /\ pc = "dwelled"
    /\ \E far \in BOOLEAN:
         IF ActivityChainsRaise(trips)
         THEN pc' = "TypeError" /\ UNCHANGED gaussians
         ELSE IF getDwellTimeDistsRaises(trips, persons)
                 \/ (far /\ getDwellTimeDistsMayRaise(trips, persons))
              THEN pc' = "ValueError" /\ UNCHANGED gaussians
              ELSE pc' = "mixtures" /\ gaussians' = getDwellTimeDists(trips, persons)
    /\ UNCHANGED <<persons, trips, activityChains, groups, jsn, distJsn, mix>>

NextE2E == LoadData \/ GetActivityChains \/ AddTime \/ GetDwellTimeDists \/ SafeActivityGroups

SpecE2E == InitE2E /\ [][NextE2E]_vars

----------------------------------------------------------------------------
(* The loader and the time resolver on survey files that hold regular work    *)
(* trips: loadData removes their rows, which leaves the leg numbers of a      *)
(* person with gaps.                                                          *)

\* the raw fields of a leg: 08:00 to 09:00; a start at 08:00 only; none
LoadRaw == {<<<<8, 0>>, <<9, 0, 0>>>>, <<<<8, 0>>, <<99, 0, 0>>>>, <<<<99, 0>>, <<99, 0, 0>>>>}

\* a leg home with the W_RBW flag rbw and the raw fields c
LoadLeg(id, wid, rbw, c) ==
    Trip(id, wid, rbw, 8, 1, c[1][1], c[1][2], c[2][1], c[2][2], c[2][3], 45, 5, Num(71))

\* the legs 1..n of one person in the file
LoadLegs(id, n, rbw, c) == [w \in 1..n |-> LoadLeg(id, w, rbw[w], c[w])]

InitLoad ==
    /\ pc = "files"
    /\ persons = <<PlainPerson(1, 1), PlainPerson(2, 1)>>
    /\ \E x \in Splits:
         \E b1 \in [1..x[1] -> {0, 1}], b2 \in [1..x[2] -> {0, 1}]:
            \E c1 \in [1..x[1] -> LoadRaw], c2 \in [1..x[2] -> LoadRaw]:
               trips = LoadLegs(1, x[1], b1, c1) \o LoadLegs(2, x[2], b2, c2)
    /\ activityChains = NoTable
    /\ groups = NoTable
    /\ gaussians = NoMap
    /\ jsn = NoTable
    /\ distJsn = NoMap
    /\ mix = NoMix

NextLoad == LoadData \/ ProcessTime \/ AddDwellTime

SpecLoad == InitLoad /\ [][NextLoad]_vars

----------------------------------------------------------------------------
(* One call of getGaus, for the cohort of everyone, on persons of whom many   *)
(* share a chain.                                                             *)

\* the numbers of persons with one chain: none, and around the least count
GausCounts == {0, 29, 30, 31}

\* the purposes of the legs that make the chains HWH, HOH and HW
GausPurposes == <<<<1, 8>>, <<5, 8>>, <<1>>>>

\* the legs of person id for GausPurposes[c]: 08:00 to 08:30, 17:30 to 18:00
GausLegs(id, c) ==
    [w \in 1..Len(GausPurposes[c]) |->
        Trip(id, w, 0, GausPurposes[c][w], 1, IF w = 1 THEN 8 ELSE 17, IF w = 1 THEN 0 ELSE 30,
             IF w = 1 THEN 8 ELSE 18, IF w = 1 THEN 30 ELSE 0, 0, 30, 5, Num(71))]

\* the legs of the persons 1..Len(cs), person id with GausPurposes[cs[id]]
RECURSIVE GausTrips(_)
GausTrips(cs) ==
    IF cs = <<>> THEN <<>>
    ELSE GausTrips(SubSeq(cs, 1, Len(cs) - 1)) \o GausLegs(Len(cs), cs[Len(cs)])

\* n copies of c
Copies(n, c) == [i \in 1..n |-> c]

InitGaus ==
    /\ pc = "dwelled"
    /\ \E n \in [1..3 -> GausCounts], rev \in BOOLEAN:
         LET cs == Copies(n[1], 1) \o Copies(n[2], 2) \o Copies(n[3], 3)
             ord == IF rev THEN Reverse(cs) ELSE cs
         IN /\ persons = [i \in 1..Len(cs) |-> PlainPerson(i, 1)]
            /\ trips = addTime(addLocations(GausTrips(ord)))
    /\ activityChains = NoTable
    /\ groups = NoTable
    /\ gaussians = NoMap
    /\ jsn = NoTable
    /\ distJsn = NoMap
    /\ mix = NoMix

\* getDwellTimeDists up to the call of forAllGrps: activityChains of the
\* persons with trips; str + 0 raises
DwellTimeChains ==
    /\ pc = "dwelled"
    /\ IF ActivityChainsRaise(trips)
       THEN pc' = "TypeError" /\ UNCHANGED activityChains
       ELSE pc' = "getGaus" /\ activityChains' = TripChains(trips)
    /\ UNCHANGED <<persons, trips, groups, gaussians, jsn, distJsn, mix>>

\* getGaus("undefined", "undefined", "undefined", "undefined", ids), the last
\* call of forAllGrps; a fit raises on a sample of fewer rows than two or than
\* the components of a candidate, and how far each search goes is up to the
\* BIC values
GetGaus ==
    /\ pc = "getGaus"
    /\ \E far \in BOOLEAN:
         LET g == getGaus(activityChains, trips, callAt(persons, NCohorts))
         IN IF \E key \in DOMAIN g:
                  \/ FitRaises(1, Len(g[key].X))
                  \/ far /\ FitRaises(mx_components - 1, Len(g[key].X))
            THEN pc' = "ValueError" /\ UNCHANGED gaussians
            ELSE pc' = "fitted" /\ gaussians' = g
    /\ UNCHANGED <<persons, trips, activityChains, groups, jsn, distJsn, mix>>

NextGaus == DwellTimeChains \/ GetGaus

SpecGaus == InitGaus /\ [][NextGaus]_vars

----------------------------------------------------------------------------
(* forAllGrps(persons, fun) with a callback that appends its arguments to the *)
(* list groups, one call of fun per step.                                     *)

\* the persons tables: up to two persons, each with one of the profiles
InitGrps ==
    /\ pc = "forAllGrps"
    /\ \E n \in 0..2: \E a \in [1..n -> Profiles]:
         persons = [i \in 1..n |-> ProfiledPerson(i, 1, a[i])]
    /\ trips = NoTable
    /\ activityChains = NoTable
    /\ groups = NoTable
    /\ gaussians = NoMap
    /\ jsn = NoTable
    /\ distJsn = NoMap
    /\ mix = NoMix

\* one pass of the innermost loop body: fun(wd, hom, mob, age, ids)
CallFun ==
    /\ pc = "forAllGrps"
    /\ Len(groups) < NCohorts
    /\ groups' = Append(groups, callAt(persons, Len(groups) + 1))
    /\ UNCHANGED <<pc, persons, trips, activityChains, gaussians, jsn, distJsn, mix>>

\* the loops are exhausted
ForAllGrpsReturns ==
    /\ pc = "forAllGrps"
    /\ Len(groups) = NCohorts
    /\ pc' = "called"
    /\ UNCHANGED <<persons, trips, activityChains, groups, gaussians, jsn, distJsn, mix>>

NextGrps == CallFun \/ ForAllGrpsReturns

SpecGrps == InitGrps /\ [][NextGrps]_vars

----------------------------------------------------------------------------
(* The pipeline of the main block on a population of about thirty persons     *)
(* who all go to work and back, some of them with a defect in their timing    *)
(* fields: loadData, getActivityChains, addTime, getDwellTimeDists,           *)
(* safeActivityGroups.                                                        *)

\* the numbers of persons: below, at and above MinCount
PipeCounts == {29, 30, 31}

\* the defects of a round trip: none; neither start nor stop on the return
\* leg; neither start nor stop on the outward leg; a return leg that starts
\* before the outward leg stops
PipeDefects == {"none", "noReturnTiming", "noOutwardTiming", "earlyReturn"}

\* the numbers of persons with the defect, of n persons: none, one, twelve, all
PipeShares(n) == {0, 1, 12, n}

\* the raw fields <<W_SZS, W_SZM, W_AZS, W_AZM>> of the return leg
PipeReturn(d) ==
    CASE d = "noReturnTiming" -> <<99, 0, 99, 0>>
      [] d = "earlyReturn" -> <<8, 10, 8, 20>>
      [] OTHER -> <<17, 30, 18, 0>>

\* the two legs of person id, to work and back home, with the defect d
PipeLegs(id, d) ==
    LET rt == RoundTrip(id, 1, PipeReturn(d))
    IN IF d = "noOutwardTiming"
       THEN <<[rt[1] EXCEPT !.W_SZS = 99, !.W_AZS = 99], rt[2]>>
       ELSE rt

\* the file of the trips of the persons 1..n, the first k of them with the
\* defect d
PipeTrips(n, k, d) ==
    [j \in 1..(2 * n) |->
        LET id == (j + 1) \div 2
        IN PipeLegs(id, IF id <= k THEN d ELSE "none")[((j - 1) % 2) + 1]]

\* person 1 carries the not-mobile flag or not; every person has trips
InitPipe ==
    /\ pc = "files"
    /\ \E n \in PipeCounts, m \in {0, 1}:
         /\ persons = [i \in 1..n |-> PlainPerson(i, IF i = 1 THEN m ELSE 1)]
         /\ \E k \in PipeShares(n), d \in PipeDefects: trips = PipeTrips(n, k, d)
    /\ activityChains = NoTable
    /\ groups = NoTable
    /\ gaussians = NoMap
    /\ jsn = NoTable
    /\ distJsn = NoMap
    /\ mix = NoMix

NextPipe == LoadData \/ GetActivityChains \/ AddTime \/ GetDwellTimeDists \/ SafeActivityGroups

SpecPipe == InitPipe /\ [][NextPipe]_vars

----------------------------------------------------------------------------
(* Properties *)

Rows == 1..Len(trips)

SamePerson(i, j) == trips[i].HP_ID_Lok = trips[j].HP_ID_Lok

\* leg j is the leg after leg i of the same person
NextLeg(i, j) == SamePerson(i, j) /\ trips[j].W_ID = trips[i].W_ID + 1

Labeled == pc \in {"labeled", "chains", "TypeError"}

\* C1: after the labeler, the start activity of leg i+1 of a person is the
\* destination activity of leg i of that person.
C1_StartIsPreviousDest ==
    Labeled => \A i, j \in Rows: NextLeg(i, j) => trips[j].StartLoc = trips[i].DestLoc

\* two legs in a row, of which the first ends at work and does not start there
C1_Witness ==
    /\ pc = "labeled"
    /\ \E i, j \in Rows:
         /\ NextLeg(i, j)
         /\ trips[i].DestLoc = "W" /\ trips[j].StartLoc = "W" /\ trips[j].DestLoc # "W"

LegIds(id) == {trips[i].W_ID : i \in {j \in Rows: trips[j].HP_ID_Lok = id}}

\* C3: after processTime on a table with the legs 1..n of every person, the
\* legs a person keeps are 1..k for some k >= 1.
C3_ContiguousLegs ==
    pc \in {"timed", "dwelled"} =>
        \A id \in PersonIds: LegIds(id) = 1..Cardinality(LegIds(id))

\* one person lost the last leg and kept the others, the other person lost
\* every leg
C3_Witness ==
    /\ pc = "timed"
    /\ \E i \in Rows: trips[i].W_count > Cardinality(LegIds(trips[i].HP_ID_Lok))
    /\ \E id \in PersonIds: LegIds(id) = {}

HasTrips(id) == \E i \in Rows: trips[i].HP_ID_Lok = id

IsMobil(id) == \E k \in 1..Len(persons): persons[k].HP_ID_Lok = id /\ persons[k].mobil # 0

\* C4: every chain of the chain table is a string over {H,W,B,S,P,O}; the
\* chain of a person with trips has one letter more than the person has legs,
\* and the chain of a person who is not mobile is "H".
C4_ChainLength ==
    pc = "chains" =>
        \A k \in 1..Len(activityChains):
            LET e == activityChains[k]
            IN /\ \A n \in 1..Len(e.chain): e.chain[n] \in Alphabet
               /\ \/ HasTrips(e.id) /\ Len(e.chain) = Cardinality(LegIds(e.id)) + 1
                  \/ ~IsMobil(e.id) /\ e.chain = <<"H">>

\* the component counts n with BIC(n+1) > BIC(n) among the candidates evaluated
Increases == {n \in 1..(Len(mix.bics) - 1): mix.bics[n + 1] > mix.bics[n]}

\* the smallest of them, or the largest count tried when there is none
NStar ==
    IF Increases = {} THEN Len(mix.bics)
    ELSE CHOOSE n \in Increases: \A m \in Increases: n <= m

\* C5: the BIC search returns the candidate with the smallest component count
\* n whose successor has a larger BIC, or the last candidate tried when the
\* BIC never increases; its BIC is at most that of every candidate evaluated,
\* and it is not the candidate whose increase stopped the search.
C5_BicSearch ==
    mix.pc = "returned" =>
        /\ mix.model_best = Num(NStar)
        /\ mix.bic_best = Num(mix.bics[NStar])
        /\ \A i \in 1..Len(mix.bics): Val(mix.bic_best) <= mix.bics[i]
        /\ Increases # {} => Val(mix.model_best) # Len(mix.bics)

\* a search that went down, stayed level, and was stopped by an increase
C5_Witness ==
    /\ mix.pc = "returned"
    /\ Len(mix.bics) = 4
    /\ mix.bics[1] > mix.bics[2] /\ mix.bics[2] = mix.bics[3] /\ mix.bics[4] > mix.bics[3]
    /\ mix.model_best = Num(3)

\* C6: in the DistanceDistributions output, the entry of every activity pair
\* under region key 0 is the fit over the trips of the pair with no region
\* filter, whatever region codes are observed.
C6_KeyZeroIsUnfiltered ==
    pc = "fitted" =>
        \A name \in DOMAIN distJsn:
            distJsn[name][0].fit = dataOf(trips, PairOf(name)[1], PairOf(name)[2], All)

\* the place of the chain of output entry a of cohort k in the cohort's
\* chain-count table
TablePos(k, a) ==
    CHOOSE i \in 1..Len(groups[k].GroupChains):
        chainStrToList(groups[k].GroupChains[i].chain) = a.chain

OutChains(k) == jsn[k].activityChains

\* the chain string of an output entry
ChainStr(k, a) == groups[k].GroupChains[TablePos(k, a)].chain

ByWeight(k) ==
    \A i, j \in 1..Len(OutChains(k)): i < j => OutChains(k)[i].weight >= OutChains(k)[j].weight

\* C8 as stated: the activityChains list of every cohort is ordered by
\* non-increasing weight, chains of equal weight in the order of the cohort's
\* chain-count table.
C8_TiesInTableOrder ==
    pc = "done" =>
        \A k \in 1..Len(jsn):
            /\ ByWeight(k)
            /\ \A i, j \in 1..Len(OutChains(k)):
                  i < j /\ OutChains(k)[i].weight = OutChains(k)[j].weight
                     => TablePos(k, OutChains(k)[i]) < TablePos(k, OutChains(k)[j])

\* C8 amended: the list is ordered by non-increasing weight, chains of equal
\* weight in descending order of the chain string.
C8_TiesByChainDescending ==
    pc = "done" =>
        \A k \in 1..Len(jsn):
            /\ ByWeight(k)
            /\ \A i, j \in 1..Len(OutChains(k)):
                  i < j /\ OutChains(k)[i].weight = OutChains(k)[j].weight
                     => StrLess(ChainStr(k, OutChains(k)[j]), ChainStr(k, OutChains(k)[i]))

\* a cohort whose table holds "H" before "HWH" with the same count, both written
C8_Witness ==
    /\ pc = "done"
    /\ \E k \in 1..Len(jsn):
         /\ Len(OutChains(k)) = 2
         /\ OutChains(k)[1].weight = OutChains(k)[2].weight
         /\ TablePos(k, OutChains(k)[1]) > TablePos(k, OutChains(k)[2])

\* C9: a chain of a cohort's chain-count table is in the cohort's
\* activityChains list exactly if its count is at least 30 and its last letter
\* is H or O, and the weight written is that count.
C9_RetainedChains ==
    pc = "done" =>
        \A k \in 1..Len(jsn):
            \A i \in 1..Len(groups[k].GroupChains):
                LET e == groups[k].GroupChains[i]
                    out == {n \in 1..Len(OutChains(k)): OutChains(k)[n].chain = chainStrToList(e.chain)}
                IN /\ out # {} <=> (e.count >= 30 /\ e.chain[Len(e.chain)] \in {"H", "O"})
                   /\ \A n \in out: OutChains(k)[n].weight = e.count
                   /\ Cardinality(out) <= 1

\* a cohort with a chain of count 30 that is written, and a cohort with a
\* chain of count 29 and with a chain ending at work of count 31, not written
C9_Witness ==
    /\ pc = "done"
    /\ \E k \in 1..Len(jsn): \E n \in 1..Len(OutChains(k)): OutChains(k)[n].weight = 30
    /\ \E k \in 1..Len(jsn): \E i \in 1..Len(groups[k].GroupChains):
         /\ groups[k].GroupChains[i] = [chain |-> <<"H", "W">>, count |-> 31]
         /\ \A n \in 1..Len(OutChains(k)): OutChains(k)[n].chain # <<"HOME", "WORK">>
    /\ \E k \in 1..Len(jsn): \E i \in 1..Len(groups[k].GroupChains):
         /\ groups[k].GroupChains[i] = [chain |-> <<"H", "W", "H">>, count |-> 29]
         /\ OutChains(k) = <<>>

\* C10: the gaussianMixture of a written chain "H" is null; that of any other
\* written chain is the entry of the fitted-mixture table under the key
\* (weekday, homogeneity group, mobility group, age, chain) of its cohort, and
\* null when the table has no entry under that key.
C10_MixtureAttached ==
    pc = "done" =>
        \A k \in 1..Len(jsn):
            \A n \in 1..Len(OutChains(k)):
                LET a == OutChains(k)[n]
                    x == ChainStr(k, a)
                    key == <<groups[k].weekday, groups[k].HomGrp, groups[k].MobGrp, groups[k].Age, x>>
                IN IF a.chain = <<"HOME">> THEN a.gaussianMixture = NoMixture
                   ELSE IF key \in DOMAIN gaussians
                        THEN a.gaussianMixture = Mixture(gaussians[key])
                        ELSE a.gaussianMixture = NoMixture

\* the first cohort writes "H" with null although a mixture is stored for it,
\* and "HWH" with its mixture; the second cohort writes "HWH" with null while
\* only the first cohort has a mixture for that chain
C10_Witness ==
    /\ pc = "done"
    /\ Len(jsn) = 2
    /\ DOMAIN gaussians = {GausKey(groups[1], <<"H">>), GausKey(groups[1], <<"H", "W", "H">>)}
    /\ \E n \in 1..Len(OutChains(1)):
         OutChains(1)[n].chain = <<"HOME">> /\ OutChains(1)[n].gaussianMixture = NoMixture
    /\ \E n \in 1..Len(OutChains(1)):
         OutChains(1)[n].chain = <<"HOME", "WORK", "HOME">>
            /\ OutChains(1)[n].gaussianMixture = Mixture("m1")
    /\ \E n \in 1..Len(OutChains(2)):
         OutChains(2)[n].chain = <<"HOME", "WORK", "HOME">>
            /\ OutChains(2)[n].gaussianMixture = NoMixture

\* the cohorts (calls of forAllGrps) that person id is a member of
CohortsOf(id) ==
    {k \in 1..NCohorts:
        \E i \in 1..Len(CohortIds(persons, CohortAt(k))): CohortIds(persons, CohortAt(k))[i] = id}

HasEntry(k, chain) == \E n \in 1..Len(OutChains(k)): OutChains(k)[n].chain = chain

\* C7 as stated: for the three persons (home-work-home, not mobile,
\* home-shopping-home) ActivityGroups.json holds, in every cohort of the
\* not-mobile person, an entry for the chain "H" with gaussianMixture null,
\* and in no cohort an entry for the shopping chain.
C7_HomeEntryPresent ==
    pc = "done" =>
        /\ \A k \in CohortsOf(2):
              \E n \in 1..Len(OutChains(k)):
                  /\ OutChains(k)[n].chain = <<"HOME">>
                  /\ OutChains(k)[n].gaussianMixture = NoMixture
        /\ \A k \in 1..Len(jsn): ~HasEntry(k, <<"HOME", "SHOPPING", "HOME">>)

\* C7 amended: for the three persons ActivityGroups.json holds no entry for
\* the chain "H" in the cohorts of the not-mobile person (its count there is
\* below 30), and in no cohort an entry for the shopping chain.
C7_NoEntryBelowMinCount ==
    pc = "done" =>
        /\ \A k \in CohortsOf(2): ~HasEntry(k, <<"HOME">>)
        /\ \A k \in 1..Len(jsn): ~HasEntry(k, <<"HOME", "SHOPPING", "HOME">>)

\* the file is written; the not-mobile person is in a cohort of their own
\* attributes whose table counts the chain "H" once, and the table of the
\* cohort of everyone counts the chains of all three persons
C7_Witness ==
    /\ pc = "done"
    /\ Len(jsn) = NCohorts
    /\ \E k \in CohortsOf(2):
         /\ CohortAt(k).wd # WdUndefined
         /\ groups[k].GroupChains = <<[chain |-> <<"H">>, count |-> 1]>>
         /\ jsn[k].sampleSize = 1
         /\ OutChains(k) = <<>>
    /\ LET tbl == groups[NCohorts].GroupChains
       IN {tbl[i] : i \in 1..Len(tbl)} =
             {[chain |-> <<"H", "W", "H">>, count |-> 1], [chain |-> <<"H">>, count |-> 1],
              [chain |-> <<"H", "P", "H">>, count |-> 1]}

\* person p satisfies the four masks of cohort c; an "undefined" axis matches
\* every person
MatchesAll(p, c) ==
    /\ c.wd = WdUndefined \/ wd_mask(p, c.wd)
    /\ c.hom = "undefined" \/ hom_mask(p, c.hom)
    /\ c.mob = "undefined" \/ mob_mask(p, c.mob)
    /\ c.age = "undefined" \/ age_mask(p, c.age)

\* every call has a combination of its own, and its ids are the persons that
\* satisfy all four masks
CallsWellFormed ==
    /\ \A i, j \in 1..Len(groups): i # j => groups[i].cohort # groups[j].cohort
    /\ \A k \in 1..Len(groups):
          {groups[k].ids[i] : i \in 1..Len(groups[k].ids)}
             = {persons[i].HP_ID_Lok : i \in {j \in 1..Len(persons): MatchesAll(persons[j], groups[k].cohort)}}

\* C11 as stated: one call of forAllGrps calls the callback exactly 512 times,
\* once per (weekday, homogeneity, mobility, age) combination, with the ids of
\* exactly the persons that satisfy all four masks.
C11_Calls512 ==
    pc = "called" => Len(groups) = 512 /\ CallsWellFormed

\* C11 amended: one call of forAllGrps calls the callback exactly 576 times
\* (9 weekday values: 1..7, 8 and "undefined"), once per combination, with the
\* ids of exactly the persons that satisfy all four masks.
C11_Calls576 ==
    pc = "called" => Len(groups) = 576 /\ CallsWellFormed

\* forAllGrps has returned on a table of two persons; a call with a weekday,
\* an age and a mobility group got one of them, the last call got both
C11_Witness ==
    /\ pc = "called"
    /\ Len(persons) = 2
    /\ \E k \in 1..Len(groups):
         /\ groups[k].cohort.wd = 1 /\ groups[k].cohort.age = "0_40"
         /\ groups[k].cohort.mob = "car_user"
         /\ Len(groups[k].ids) = 1
    /\ Len(groups[Len(groups)].ids) = 2

\* the row of the leg before row i of the same person
LegBefore(i) == CHOOSE j \in Rows: NextLeg(j, i)

\* the destination a leg with purpose code 10 inherits: that of the nearest
\* leg before it whose code is not 10, nothing if leg 1 has the code 10 too
RECURSIVE InheritedDest(_)
InheritedDest(i) ==
    IF trips[i].zweck # 10 THEN trips[i].DestLoc
    ELSE IF trips[i].W_ID = 1 THEN None
    ELSE InheritedDest(LegBefore(i))

\* C12: after the labeler, a leg with purpose code 10 that is not leg 1 of
\* its person has the destination label of the nearest preceding leg of the
\* person whose code is not 10, and none if the walk back ends at a leg 1 with
\* the code 10.
C12_Purpose10Inherits ==
    Labeled =>
        \A i \in Rows:
            trips[i].zweck = 10 /\ trips[i].W_ID # 1 => trips[i].DestLoc = InheritedDest(i)

\* a row without start and without stop in the raw fields
NoTiming(r) == ~(r.W_SZS < 80 /\ r.W_SZM < 80) /\ ~(r.W_AZS < 80 /\ r.W_AZM < 80)

\* row i is the last leg of its person in the table
IsLastLeg(i) == \A j \in Rows: SamePerson(i, j) => trips[j].W_ID <= trips[i].W_ID

\* the rows the cleanup is to remove: every row of a person with a leg without
\* timing that is not the last, and a last leg without timing
ToRemove ==
    {i \in Rows:
        \/ \E j \in Rows: SamePerson(i, j) /\ NoTiming(trips[j]) /\ ~IsLastLeg(j)
        \/ NoTiming(trips[i]) /\ IsLastLeg(i)}

LegKey(r) == <<r.HP_ID_Lok, r.W_ID>>

\* C13: processTime does not abort and removes exactly these rows: the last
\* leg of a person when it is the person's only leg with neither start nor
\* stop, every leg of a person with a leg that is not the last and has neither
\* start nor stop, and no other row.
C13_ExactRowsRemoved ==
    [][pc = "labeled" /\ pc' = "timed"
          => {LegKey(trips'[i]) : i \in 1..Len(trips')}
                = {LegKey(trips[i]) : i \in Rows \ ToRemove}]_vars

\* the raw start and stop fields of a row are given
RawStart(r) == r.W_SZS < 80 /\ r.W_SZM < 80
RawStop(r) == r.W_AZS < 80 /\ r.W_AZM < 80

\* C14: after processTime every leg kept has start and stop: start is
\* hour*60+minute when both raw start fields are below 80, stop is
\* hour*60+minute (+1440 with the next-day flag) when both raw stop fields are
\* below 80, a missing stop is start + duration and a missing start is
\* stop - duration.
C14_StartStopImputed ==
    pc \in {"timed", "dwelled"} =>
        \A i \in Rows:
            LET r == trips[i]
            IN /\ r.start # NoNum /\ r.stop # NoNum
               /\ RawStart(r) \/ RawStop(r)
               /\ RawStart(r) => Val(r.start) = r.W_SZS * 60 + r.W_SZM
               /\ RawStop(r) => Val(r.stop) = r.W_AZS * 60 + r.W_AZM
                                                  + (IF r.W_FOLGETAG = 1 THEN 1440 ELSE 0)
               /\ ~RawStop(r) => Val(r.stop) = Val(r.start) + r.wegmin_imp1
               /\ ~RawStart(r) => Val(r.start) = Val(r.stop) - r.wegmin_imp1

\* a table after processTime with a leg whose stop was imputed, a leg whose
\* start was imputed from a stop on the following day, and a leg with both
C14_Witness ==
    /\ pc = "timed"
    /\ \E i \in Rows: RawStart(trips[i]) /\ ~RawStop(trips[i])
    /\ \E i \in Rows: ~RawStart(trips[i]) /\ RawStop(trips[i]) /\ trips[i].W_FOLGETAG = 1
    /\ \E i \in Rows: RawStart(trips[i]) /\ RawStop(trips[i])

\* the number of persons with the chain x
ChainCount(x) == Cardinality({i \in 1..Len(activityChains): activityChains[i].chain = x})

\* the key of the cohort of everyone for the chain x
EveryoneKey(x) == <<WdUndefined, "undefined", "undefined", "undefined", x>>

\* C15: after a call of getGaus a mixture is stored for a chain of the cohort
\* exactly if the chain's count is at least 30.
C15_FittedIffMinCount ==
    pc = "fitted" =>
        \A i \in 1..Len(activityChains):
            LET x == activityChains[i].chain
            IN EveryoneKey(x) \in DOMAIN gaussians <=> ChainCount(x) >= 30

\* a call on chains with the counts 31, 30 and 29: the first two are fitted
\* on all their rows, the third is not
C15_Witness ==
    /\ pc = "fitted"
    /\ ChainCount(<<"H", "W", "H">>) = 31
    /\ ChainCount(<<"H", "O", "H">>) = 30
    /\ ChainCount(<<"H", "W">>) = 29
    /\ DOMAIN gaussians = {EveryoneKey(<<"H", "W", "H">>), EveryoneKey(<<"H", "O", "H">>)}
    /\ Len(gaussians[EveryoneKey(<<"H", "O", "H">>)].X) = 30

\* C16: with the default maximum the BIC search tries the component counts
\* 1, 2, ..., 20 when the BIC never increases, so the model returned then has
\* 20 components, and no model returned has more than 20.
C16_UpTo20Components ==
    mix.pc = "returned" =>
        /\ Val(mix.model_best) <= 20
        /\ Increases = {} => Len(mix.bics) = 20 /\ mix.model_best = Num(20)

\* the distances of the trips of a pair for a region key, as the claim selects
\* them: below 1000 km, the destination of the pair, the start of the pair
\* when it has one, the region code of the key unless the key is 0
SampleFor(name, key) ==
    LET sel == SelectSeq(trips, LAMBDA r:
                   /\ r.wegkm < 1000
                   /\ r.DestLoc = PairOf(name)[2]
                   /\ PairOf(name)[1] # None => r.StartLoc = PairOf(name)[1]
                   /\ key # 0 => r.RegioStaR7 = Num(key))
    IN [i \in 1..Len(sel) |-> sel[i].wegkm]

\* C17: for each of the four activity pairs and each region key the sample
\* fitted is that of the trips below 1000 km with the pair's destination, the
\* pair's start when it has one, and the region code of the key, with no
\* region condition for the key 0.
C17_SampleOfPairAndRegion ==
    pc = "fitted" =>
        \A name \in DOMAIN distJsn:
            \A key \in DOMAIN distJsn[name]:
                distJsn[name][key].fit = SampleFor(name, key)

\* C18: the chain table holds the chain "H" for a person exactly if the
\* person is not mobile and has no trips, and holds every person at most once.
C18_SyntheticOnlyWithoutTrips ==
    pc = "chains" =>
        /\ \A k \in 1..Len(persons):
              (\E i \in 1..Len(activityChains):
                   /\ activityChains[i].id = persons[k].HP_ID_Lok
                   /\ activityChains[i].chain = <<"H">>)
                 <=> (persons[k].mobil = 0 /\ ~HasTrips(persons[k].HP_ID_Lok))
        /\ \A i, j \in 1..Len(activityChains):
              i # j => activityChains[i].id # activityChains[j].id

\* C19: the labeler returns the rows it was given, none dropped and none
\* added, with every field they had unchanged and with exactly the two fields
\* StartLoc and DestLoc added.
C19_LabelerFrame ==
    [][pc = "loaded" /\ pc' = "labeled"
          => /\ Len(trips') = Len(trips)
             /\ \A i \in 1..Len(trips):
                   \E j \in 1..Len(trips'):
                       /\ \A f \in DOMAIN trips[i]: trips'[j][f] = trips[i][f]
                       /\ DOMAIN trips'[j] = DOMAIN trips[i] \cup {"StartLoc", "DestLoc"}]_vars

\* a labeled table of three rows with a row that got no destination label
\* and a row that got no start label
C19_Witness ==
    /\ pc = "labeled"
    /\ Len(trips) = 3
    /\ \E i \in Rows: trips[i].DestLoc = None
    /\ \E i \in Rows: trips[i].StartLoc = None

\* a sample of distances in meters
Meters(data) == [i \in 1..Len(data) |-> data[i] * 1000]

\* C20: every distance passed to the lognormal fit is the recorded distance
\* of a trip in kilometers multiplied by 1000: the sample fitted for a pair
\* and a region key is that of the pair's trips (of the region, or of all
\* regions), in meters.
C20_SampleInMeters ==
    pc = "fitted" =>
        \A name \in DOMAIN distJsn:
            \A key \in DOMAIN distJsn[name]:
                \/ distJsn[name][key].fit
                      = Meters(dataOf(trips, PairOf(name)[1], PairOf(name)[2], All))
                \/ distJsn[name][key].fit
                      = Meters(dataOf(trips, PairOf(name)[1], PairOf(name)[2], Region(key)))

\* C21: in every cohort record of getActivityChains the counts of the
\* chain-count table add up to the member count, which is the value written
\* as sampleSize.
C21_CountsSumToMemberCount ==
    /\ \A k \in 1..Len(groups): SumCounts(groups[k].GroupChains) = groups[k].count
    /\ pc = "done" =>
          \A k \in 1..Len(jsn): SumCounts(groups[k].GroupChains) = jsn[k].sampleSize

\* C22: in the file written by the main block every chain entry other than
\* "H" has a mixture: the pairs fitted on the trips after the time cleanup
\* cover the pairs the serializer retains from the table built before it.
C22_RetainedChainsHaveMixture ==
    pc = "done" =>
        \A k \in 1..Len(jsn):
            \A n \in 1..Len(OutChains(k)):
                OutChains(k)[n].chain # <<"HOME">>
                    => OutChains(k)[n].gaussianMixture # NoMixture

\* the axes of a cohort and the value of each that matches every person
Axes == {"wd", "hom", "mob", "age"}

UndefinedOf(f) == IF f = "wd" THEN WdUndefined ELSE "undefined"

\* calls i and j are for two different buckets of the axis f, neither of them
\* "undefined", with every other axis "undefined"
TwoBucketsOf(f, i, j) ==
    /\ groups[i].cohort[f] # UndefinedOf(f)
    /\ groups[j].cohort[f] # UndefinedOf(f)
    /\ groups[i].cohort[f] # groups[j].cohort[f]
    /\ \A g \in Axes \ {f}:
          groups[i].cohort[g] = UndefinedOf(g) /\ groups[j].cohort[g] = UndefinedOf(g)

\* C23: along each axis of forAllGrps the buckets other than "undefined" are
\* pairwise disjoint: no person is passed to the callback for two different
\* weekday buckets, homogeneity buckets, mobility buckets or age buckets.
C23_BucketsDisjoint ==
    pc = "called" =>
        \A f \in Axes:
            \A i, j \in 1..Len(groups):
                TwoBucketsOf(f, i, j) =>
                    \A a \in 1..Len(groups[i].ids), b \in 1..Len(groups[j].ids):
                        groups[i].ids[a] # groups[j].ids[b]

\* C24: getDwellTimeDists never ends in an error of a fit: every chain with a
\* count of at least 30 has enough complete dwell-time rows for every
\* component count the search tries.
C24_FitNeverRaises == pc # "ValueError"

\* C25: whenever the labeler or addTime reads the row before row i of the
\* sorted table for a leg whose index is not 1, that row is a leg of the same
\* person: the labeler reads destLocs[i-1] of the list built so far, addTime
\* reads stops[i-1] of the whole column.
C25_PreviousRowSamePerson ==
    /\ pc = "labeled" =>
          \A i \in Rows: trips[i].W_ID # 1 => SamePerson(i, PyPrev(i, i))
    /\ pc \in {"timed", "dwelled"} =>
          \A i \in Rows: trips[i].W_ID # 1 => SamePerson(i, PyPrev(i, Len(trips)))

====
